---- MODULE Spec2Model ----
(***************************************************************************)
(* Model of the streaming core of cai: the SSE frame parser                *)
(* (SseResponse::from_chunk), the stream reassembler                       *)
(* (SseStreamReader::maybe_parse), the three vendor adapters (the closures *)
(* of request / request_mut in clients/{claude,openai,gemini}.rs), the     *)
(* orchestrator loops (Response::handle_stream and                         *)
(* Response::handle_mut_stream_use_convert) and the sinks.                 *)
(*                                                                         *)
(* Text is a sequence of symbols.  A symbol is one character, written as   *)
(* a one-character string, with three exceptions: LF and CR stand for the  *)
(* characters \n and \r, and a symbol in braces such as "{claude:Hi}"      *)
(* stands for a whole JSON document (from_chunk never looks inside a       *)
(* record's value except for white space, the event/data separator and the *)
(* digits of retry:, none of which a JSON symbol holds; the transport of   *)
(* the model cuts chunks between symbols).                                 *)
(***************************************************************************)
EXTENDS Integers, Sequences, FiniteSets, TLC

LF == "LF"
CR == "CR"
SP == " "

\* ------------------------------------------------------------------------
\* String helpers: the std::str operations from_chunk is written with.
\* ------------------------------------------------------------------------

\* s ++ t ++ ... for a sequence of texts
RECURSIVE Concat(_)
Concat(ss) == IF ss = <<>> THEN <<>> ELSE Head(ss) \o Concat(Tail(ss))

\* str::starts_with
starts_with(s, p) ==
    /\ Len(p) <= Len(s)
    /\ SubSeq(s, 1, Len(p)) = p

\* str::find: index of the first occurrence of p in s, 0 when there is none
RECURSIVE find_from(_, _, _)
find_from(s, p, i) ==
    IF i + Len(p) - 1 > Len(s) THEN 0
    ELSE IF SubSeq(s, i, i + Len(p) - 1) = p THEN i
    ELSE find_from(s, p, i + 1)

find(s, p) == find_from(s, p, 1)

\* str::contains
contains(s, p) == find(s, p) # 0

\* str::split(pattern), collected: the pieces between the non-overlapping
\* occurrences of p, found left to right
RECURSIVE split(_, _)
split(s, p) ==
    LET i == find(s, p)
    IN  IF i = 0 THEN <<s>>
        ELSE <<SubSeq(s, 1, i - 1)>> \o split(SubSeq(s, i + Len(p), Len(s)), p)

\* [&str]::join(sep)
RECURSIVE join(_, _)
join(ss, sep) ==
    IF ss = <<>> THEN <<>>
    ELSE IF Len(ss) = 1 THEN Head(ss)
    ELSE Head(ss) \o sep \o join(Tail(ss), sep)

\* char::is_whitespace for the symbols of the model
WhiteSpace == {SP, LF, CR}

\* str::trim_start_matches(p): removes every repetition of the prefix p
RECURSIVE trim_start_matches(_, _)
trim_start_matches(s, p) ==
    IF p # <<>> /\ starts_with(s, p)
    THEN trim_start_matches(SubSeq(s, Len(p) + 1, Len(s)), p)
    ELSE s

\* str::trim: removes leading and trailing white space
str_trim(s) ==
    LET keep == {i \in 1..Len(s) : s[i] \notin WhiteSpace}
    IN  IF keep = {} THEN <<>>
        ELSE SubSeq(s, CHOOSE i \in keep : \A j \in keep : i <= j,
                       CHOOSE i \in keep : \A j \in keep : i >= j)

\* str::parse::<u32> on the digits of the model
Digits == <<"0", "1", "2", "3", "4", "5", "6", "7", "8", "9">>
DigitVal(c) == (CHOOSE i \in 1..Len(Digits) : Digits[i] = c) - 1
IsDigit(c) == \E i \in 1..Len(Digits) : Digits[i] = c

RECURSIVE ParseDigits(_, _)
ParseDigits(s, acc) ==
    IF s = <<>> THEN acc ELSE ParseDigits(Tail(s), acc * 10 + DigitVal(Head(s)))

\* Ok(n) is [ok |-> TRUE, val |-> n].  Every string of at most nine digits is
\* below 2^32; the texts of the model hold no longer run of digits and no sign.
parse_u32(s) ==
    IF s # <<>> /\ Len(s) <= 9 /\ (\A i \in 1..Len(s) : IsDigit(s[i]))
    THEN [ok |-> TRUE, val |-> ParseDigits(s, 0)]
    ELSE [ok |-> FALSE, val |-> 0]

\* the two bytes of a character UTF-8 encodes in two bytes: the lead byte
\* and the continuation byte; every other symbol is one ASCII byte
Lead == "xC3"
Cont == "xA9"

\* std::str::from_utf8: Ok iff every lead byte is followed by a continuation
\* byte and every continuation byte follows a lead byte
from_utf8(bytes) ==
    [ok |-> \A i \in DOMAIN bytes :
               /\ bytes[i] = Lead => (i < Len(bytes) /\ bytes[i + 1] = Cont)
               /\ bytes[i] = Cont => (i > 1 /\ bytes[i - 1] = Lead),
     s |-> bytes]

\* ------------------------------------------------------------------------
\* SseResponse and SseResponse::from_chunk
\* ------------------------------------------------------------------------

\* enum SseResponse { Event(String), Data(String), Id(String), Retry(u32) }
SseResponse(kind, text, n) == [kind |-> kind, text |-> text, retry |-> n]
Event(text) == SseResponse("Event", text, 0)
Data(text)  == SseResponse("Data", text, 0)
Id(text)    == SseResponse("Id", text, 0)
Retry(n)    == SseResponse("Retry", <<>>, n)

\* Option<T> of the model
None      == [some |-> FALSE, val |-> <<>>]
Some(v)   == [some |-> TRUE, val |-> v]

PrefixData  == <<"d", "a", "t", "a", ":">>
PrefixEvent == <<"e", "v", "e", "n", "t", ":">>
PrefixId    == <<"i", "d", ":">>
PrefixRetry == <<"r", "e", "t", "r", "y", ":">>

\* a trim that removes the prefix alone
trim_PrefixOnly(line, res_type) == trim_start_matches(line, res_type)

\* SseResponse::trim
trim(line, res_type) == str_trim(trim_start_matches(line, res_type))

\* SseResponse::extract_str
extract_str(line) ==
    IF starts_with(line, PrefixData) THEN Some(Data(trim(line, PrefixData)))
    ELSE IF starts_with(line, PrefixEvent) THEN Some(Event(trim(line, PrefixEvent)))
    ELSE IF starts_with(line, PrefixId) THEN Some(Id(trim(line, PrefixId)))
    ELSE IF starts_with(line, PrefixRetry) /\ parse_u32(trim(line, PrefixRetry)).ok
         THEN Some(Retry(parse_u32(trim(line, PrefixRetry)).val))
    ELSE None

DelimLF   == <<LF, LF>>
DelimCRLF == <<CR, LF, CR, LF>>
EventDataSep == <<LF, "d", "a", "t", "a", ":", SP>>

\* a delimiter choice that looks for "\n\n" first
delimiter_PrefersLF(chunk) == IF contains(chunk, DelimLF) THEN DelimLF ELSE DelimCRLF

\* the delimiter from_chunk picks for a chunk
delimiter(chunk) == IF contains(chunk, DelimCRLF) THEN DelimCRLF ELSE DelimLF

\* the frames one classified record contributes (the body of `if let Some(data)`)
record_frames(data) ==
    IF data.kind = "Event"
    THEN LET event_maybe_data == split(data.text, EventDataSep)
         IN  IF Len(event_maybe_data) >= 2
             THEN <<Event(event_maybe_data[1]), Data(event_maybe_data[2])>>
             ELSE <<data>>
    ELSE <<data>>

\* Result<Vec<SseResponse>, SseResponseParseError>.  result is the Vec in the
\* making: each frame with `at`, the offset in the chunk of the record it was
\* read from plus its rank among that record's frames (history: the code
\* keeps the frame alone).
ParseOk(result) ==
    [tag |-> "Ok",
     frames |-> [k \in 1..Len(result) |-> result[k].frame],
     at |-> [k \in 1..Len(result) |-> result[k].at],
     data |-> <<>>]
InterruptedData(data) == [tag |-> "InterruptedData", frames |-> <<>>, at |-> <<>>, data |-> data]

\* result.insert(0, ..): the frames of the record put before those found so
\* far
pushed_Front(result, frames, off) ==
    [k \in 1..Len(frames) |-> [frame |-> frames[k], at |-> off + k - 1]] \o result

\* result.push(..) for each frame of the record at offset off
pushed(result, frames, off) ==
    result \o [k \in 1..Len(frames) |-> [frame |-> frames[k], at |-> off + k - 1]]

\* the `for line in lines` loop from line number i on, which starts at offset
\* off of the chunk, with the frames found so far
RECURSIVE from_chunk_loop(_, _, _, _, _)
from_chunk_loop(lines, delim, i, off, result) ==
    IF i > Len(lines)
    THEN ParseOk(result)
    ELSE IF lines[i] = <<>>
    THEN from_chunk_loop(lines, delim, i + 1, off + Len(delim), result)
    ELSE IF extract_str(lines[i]).some
    THEN from_chunk_loop(lines, delim, i + 1, off + Len(lines[i]) + Len(delim),
                         pushed(result, record_frames(extract_str(lines[i]).val), off))
    ELSE InterruptedData(join(SubSeq(lines, 1, i), delim))

\* from_chunk without the check of the last line
from_chunk_NoLastLineCheck(chunk) ==
    from_chunk_loop(split(chunk, delimiter(chunk)), delimiter(chunk), 1, 0, <<>>)

\* SseResponse::from_chunk
from_chunk(chunk) ==
    LET delim == delimiter(chunk)
        lines == split(chunk, delim)
        looped == from_chunk_loop(lines, delim, 1, 0, <<>>)
    IN  IF looped.tag # "Ok" THEN looped
        ELSE IF lines[Len(lines)] # <<>> THEN InterruptedData(chunk)
        ELSE looped

\* ------------------------------------------------------------------------
\* SseStreamReader
\* ------------------------------------------------------------------------

\* assert!(self.call_time < 10)
CallTimeLimit == 10

\* SseStreamReader::new
SseStreamReader_new == [interrupted_data |-> None, call_time |-> 0]

\* the match with an interrupted chunk answered by Some of no frames, the
\* tail buffered all the same
maybe_parse_match_SomeWithTail(self, chunk) ==
    LET res == from_chunk(chunk)
    IN  IF res.tag = "Ok"
        THEN [reader |-> self, ret |-> Some(res.frames), at |-> res.at, panic |-> FALSE]
        ELSE [reader |-> [self EXCEPT !.interrupted_data = Some(res.data)],
              ret |-> Some(<<>>), at |-> <<>>, panic |-> FALSE]

\* the `match SseResponse::from_chunk(chunk)` of maybe_parse, reached with no
\* tail buffered.  ret is the Option<Vec<SseResponse>> returned; at is
\* history, the offset in the parsed text of each frame returned.
maybe_parse_match(self, chunk) ==
    LET res == from_chunk(chunk)
    IN  IF res.tag = "Ok"
        THEN [reader |-> self, ret |-> Some(res.frames), at |-> res.at, panic |-> FALSE]
        ELSE [reader |-> [self EXCEPT !.interrupted_data = Some(res.data)],
              ret |-> None, at |-> <<>>, panic |-> FALSE]

\* maybe_parse with the tail forgotten: the chunk alone is parsed
maybe_parse_DropsTail(self, chunk) ==
    IF self.interrupted_data.some
    THEN LET taken == [interrupted_data |-> None, call_time |-> self.call_time + 1]
         IN  IF ~(taken.call_time < CallTimeLimit)
             THEN [reader |-> taken, ret |-> None, at |-> <<>>, panic |-> TRUE]
             ELSE maybe_parse_match(taken, chunk)
    ELSE maybe_parse_match(self, chunk)

\* SseStreamReader::maybe_parse.  A failed assert! panics: the call returns
\* nothing and the thread unwinds, leaving the reader as it was at the assert.
maybe_parse(self, chunk) ==
    IF self.interrupted_data.some
    THEN LET taken == [interrupted_data |-> None, call_time |-> self.call_time + 1]
         IN  IF ~(taken.call_time < CallTimeLimit)
             THEN [reader |-> taken, ret |-> None, at |-> <<>>, panic |-> TRUE]
             ELSE maybe_parse_match(taken, self.interrupted_data.val \o chunk)
    ELSE maybe_parse_match(self, chunk)

\* the text the call parses: the buffered tail, if any, followed by the chunk
parsed_text(self, chunk) ==
    IF self.interrupted_data.some THEN self.interrupted_data.val \o chunk ELSE chunk

\* ------------------------------------------------------------------------
\* Vendor payloads.  A JSON document is one symbol; serde_json::from_str is
\* the table of what each document deserializes to, and fails on every other
\* text (a text that is not exactly one document of the vendor's shape).
\* ------------------------------------------------------------------------

Hi == <<"H", "i">>
Yo == <<"Y", "o">>

\* {"type":"ping"}: well-formed JSON that has no vendor's shape
PingDoc == "{ping}"

\* {"type":..,"index":0,"delta":{"type":..,"text":t}} as ClaudeMessageStreamResponse
ClaudeDocs ==
    ("{claude:Hi}" :> [delta |-> [text |-> Hi]]) @@
    ("{claude:Yo}" :> [delta |-> [text |-> Yo]]) @@
    ("{claude:}"   :> [delta |-> [text |-> <<>>]])

\* {"choices":[{"delta":{"content":c},..}],..} as StreamChat
OpenAIDocs ==
    ("{openai:Hi}"    :> [choices |-> <<[delta |-> [content |-> Some(Hi)]]>>]) @@
    ("{openai:Yo}"    :> [choices |-> <<[delta |-> [content |-> Some(Yo)]]>>]) @@
    ("{openai:Hi,Yo}" :> [choices |-> <<[delta |-> [content |-> Some(Hi)]],
                                        [delta |-> [content |-> Some(Yo)]]>>]) @@
    ("{openai:null}"  :> [choices |-> <<[delta |-> [content |-> None]]>>]) @@
    ("{openai:[]}"    :> [choices |-> <<>>])

\* {"candidates":[{"content":{"parts":[{"text":t}],"role":..}}]} as GeminiResponse
GeminiDocs ==
    ("{gemini:Hi}"    :> [candidates |-> <<[content |-> [parts |-> <<[text |-> Hi]>>]]>>]) @@
    ("{gemini:Yo}"    :> [candidates |-> <<[content |-> [parts |-> <<[text |-> Yo]>>]]>>]) @@
    ("{gemini:Hi,Yo}" :> [candidates |-> <<[content |-> [parts |-> <<[text |-> Hi], [text |-> Yo]>>]]>>]) @@
    ("{gemini:[Hi],[Yo]}" :> [candidates |-> <<[content |-> [parts |-> <<[text |-> Hi]>>]],
                                               [content |-> [parts |-> <<[text |-> Yo]>>]]>>]) @@
    ("{gemini:parts[]}" :> [candidates |-> <<[content |-> [parts |-> <<>>]]>>]) @@
    ("{gemini:[]}"    :> [candidates |-> <<>>])

\* serde_json::from_str::<T>(data) for the T whose documents are docs
from_str(docs, data) ==
    IF Len(data) = 1 /\ data[1] \in DOMAIN docs
    THEN [ok |-> TRUE, val |-> docs[data[1]]]
    ELSE [ok |-> FALSE, val |-> <<>>]

\* ClaudeMessageStreamResponse::into_string
claude_into_string(resp) == resp.delta.text

DoneSentinel == <<"[", "D", "O", "N", "E", "]">>

\* a conversion that takes the first choice
ChatResponse_from_FirstChoice(s) ==
    IF s.choices = <<>>
    THEN [tag |-> "DeltaContent", content |-> <<>>]
    ELSE IF s.choices[1].delta.content.some
    THEN [tag |-> "DeltaContent", content |-> s.choices[1].delta.content.val]
    ELSE [tag |-> "DeltaContent", content |-> <<>>]

\* a conversion that takes the last part
gemini_candidate_into_string_LastPart(candidate) ==
    IF candidate.content.parts = <<>> THEN <<>>
    ELSE candidate.content.parts[Len(candidate.content.parts)].text

\* impl From<StreamChat> for ChatResponse; ChatResponse::default() is
\* DeltaContent("")
ChatResponse_from(s) ==
    IF s.choices = <<>>
    THEN [tag |-> "DeltaContent", content |-> <<>>]
    ELSE LET c == s.choices[Len(s.choices)]
         IN  IF c.delta.content.some
             THEN [tag |-> "DeltaContent", content |-> c.delta.content.val]
             ELSE [tag |-> "DeltaContent", content |-> <<>>]

\* impl TryFrom<&str> for ChatResponse
ChatResponse_try_from(stream_text) ==
    IF starts_with(stream_text, DoneSentinel)
    THEN [ok |-> TRUE, val |-> [tag |-> "Done", content |-> <<>>]]
    ELSE IF from_str(OpenAIDocs, stream_text).ok
    THEN [ok |-> TRUE, val |-> ChatResponse_from(from_str(OpenAIDocs, stream_text).val)]
    ELSE [ok |-> FALSE, val |-> [tag |-> "Err", content |-> <<>>]]

\* impl From<GeminiResponseCandidate> for String
gemini_candidate_into_string(candidate) ==
    IF candidate.content.parts = <<>> THEN <<>> ELSE candidate.content.parts[1].text

\* a conversion that takes the last candidate
gemini_into_string_LastCandidate(response) ==
    IF response.candidates = <<>> THEN <<>>
    ELSE gemini_candidate_into_string(response.candidates[Len(response.candidates)])

\* impl From<GeminiResponse> for String
gemini_into_string(response) ==
    IF response.candidates = <<>> THEN <<>>
    ELSE gemini_candidate_into_string(response.candidates[1])

\* ------------------------------------------------------------------------
\* The closures f of request and request_mut.  A closure of request either
\* returns Ok(()) without touching the handler ("skip"), returns Err ("err"),
\* or calls handler.handle(text) and returns its result ("handle").  A closure
\* of request_mut returns Ok(text) ("convert") or Err ("err").
\* ------------------------------------------------------------------------

Skip         == [act |-> "skip", text |-> <<>>]
Fail         == [act |-> "err", text |-> <<>>]
Handle(t)    == [act |-> "handle", text |-> t]
Convert(t)   == [act |-> "convert", text |-> t]

\* ClaudeMessageClient::request, the closure f
claude_request_f(frame) ==
    IF frame.kind # "Data" THEN Skip
    ELSE IF ~from_str(ClaudeDocs, frame.text).ok THEN Skip
    ELSE Handle(claude_into_string(from_str(ClaudeDocs, frame.text).val))

\* ClaudeMessageClient::request_mut, the closure f
claude_request_mut_f(frame) ==
    IF frame.kind # "Data" THEN Convert(<<>>)
    ELSE IF ~from_str(ClaudeDocs, frame.text).ok THEN Convert(<<>>)
    ELSE Convert(claude_into_string(from_str(ClaudeDocs, frame.text).val))

\* ChatCompletionsClient::request, the closure f
openai_request_f(frame) ==
    IF frame.kind # "Data" THEN Skip
    ELSE IF ~ChatResponse_try_from(frame.text).ok THEN Fail
    ELSE IF ChatResponse_try_from(frame.text).val.tag = "Done" THEN Skip
    ELSE Handle(ChatResponse_try_from(frame.text).val.content)

\* ChatCompletionsClient::request_mut, the closure f
openai_request_mut_f(frame) ==
    IF frame.kind # "Data" THEN Convert(<<>>)
    ELSE IF ~ChatResponse_try_from(frame.text).ok THEN Fail
    ELSE IF ChatResponse_try_from(frame.text).val.tag = "Done" THEN Convert(<<>>)
    ELSE Convert(ChatResponse_try_from(frame.text).val.content)

\* GeminiGenerateContent::request, the closure f
gemini_request_f(frame) ==
    IF frame.kind # "Data" THEN Skip
    ELSE IF ~from_str(GeminiDocs, frame.text).ok THEN Fail
    ELSE Handle(gemini_into_string(from_str(GeminiDocs, frame.text).val))

\* GeminiGenerateContent::request_mut, the closure f
gemini_request_mut_f(frame) ==
    IF frame.kind # "Data" THEN Convert(<<>>)
    ELSE IF ~from_str(GeminiDocs, frame.text).ok THEN Fail
    ELSE Convert(gemini_into_string(from_str(GeminiDocs, frame.text).val))

Vendors == {"claude", "openai", "gemini"}
Paths == {"request", "request_mut"}

\* GAIEngines::request: the closure of the engine's client
request_f(v, frame) ==
    CASE v = "claude" -> claude_request_f(frame)
      [] v = "openai" -> openai_request_f(frame)
      [] v = "gemini" -> gemini_request_f(frame)

\* GAIEngines::request_mut: the closure of the engine's client
request_mut_f(v, frame) ==
    CASE v = "claude" -> claude_request_mut_f(frame)
      [] v = "openai" -> openai_request_mut_f(frame)
      [] v = "gemini" -> gemini_request_mut_f(frame)

\* ------------------------------------------------------------------------
\* The byte streams the transport may carry
\* ------------------------------------------------------------------------

\* the longest chunk the transport hands over at once
MaxChunkLen == 12

RecData(v)   == PrefixData \o <<SP>> \o v
RecEvent(v)  == PrefixEvent \o <<SP>> \o v
RecId(v)     == PrefixId \o <<SP>> \o v
RecRetry(v)  == PrefixRetry \o <<SP>> \o v
RecFoo       == <<"f", "o", "o", ":", SP, "b", "a", "r">>
RecUpper     == <<"D", "a", "t", "a", ":", SP, "a">>

\* records that exercise the frame parser; their data values are plain text
ParserRecords ==
    { RecData(<<"a">>),
      PrefixData \o <<"a">>,
      RecData(<<"a", LF, LF, "b">>),
      RecEvent(<<"m">>),
      RecEvent(<<"m", LF>>) \o RecData(<<"a">>),
      RecEvent(<<"m", LF>>) \o RecData(<<"a", LF>>) \o RecData(<<"b">>),
      RecId(<<"1">>),
      RecRetry(<<"1", "2">>),
      RecRetry(<<"x">>),
      RecData(<<Lead, Cont>>),
      PrefixEvent \o <<"m">>,
      RecUpper,
      RecFoo }

\* records a vendor's endpoint sends, and records it should never send
DocHi(v) == CASE v = "claude" -> "{claude:Hi}"
              [] v = "openai" -> "{openai:Hi}"
              [] v = "gemini" -> "{gemini:Hi}"
DocYo(v) == CASE v = "claude" -> "{claude:Yo}"
              [] v = "openai" -> "{openai:Yo}"
              [] v = "gemini" -> "{gemini:Yo}"

VendorRecords(v) ==
    { RecData(<<DocHi(v)>>),
      RecData(<<DocYo(v)>>),
      RecData(DoneSentinel),
      RecData(<<PingDoc>>),
      RecEvent(<<"m">>) }

\* documents of the vendor's shape with several, or no, choices, candidates
\* or parts, or with an empty or absent delta
VendorExtraDocs(v) ==
    CASE v = "claude" -> {"{claude:}"}
      [] v = "openai" -> {"{openai:Hi,Yo}", "{openai:null}", "{openai:[]}"}
      [] v = "gemini" -> {"{gemini:Hi,Yo}", "{gemini:[Hi],[Yo]}", "{gemini:parts[]}", "{gemini:[]}"}

\* one record of firsts, or one of firsts and then one of seconds, each
\* followed by the delimiter
StreamsOf(firsts, seconds, delim) ==
    { r \o delim : r \in firsts } \cup
    { r1 \o delim \o r2 \o delim : r1 \in firsts, r2 \in seconds }

ParserSeconds == { RecData(<<"b">>), RecFoo }

\* bodies of a connection that closes in the middle of a record
TruncatedStreams ==
    { RecData(<<"a">>) \o DelimLF \o RecData(<<"b">>),
      RecData(<<"a">>) \o DelimLF \o RecData(<<"b">>) \o <<LF>> }

\* bodies with one more line end after a record's delimiter
BlankLineStreams ==
    { RecData(<<"a">>) \o DelimLF \o <<LF>>,
      RecData(<<"a">>) \o DelimLF \o <<LF>> \o RecData(<<"b">>) \o DelimLF }

ParserStreams ==
    StreamsOf(ParserRecords, ParserSeconds, DelimLF) \cup
    StreamsOf(ParserRecords, ParserSeconds, DelimCRLF) \cup
    TruncatedStreams \cup
    BlankLineStreams

Sinks == {"handler", "container"}

\* container_handler!(first:.., second:.., third:..): the members, in the
\* order the macro call declares them
ContainerMembers == <<"first", "second", "third">>

Configs ==
    { [vendor |-> "claude", path |-> "request_mut", sink |-> "handler", stream |-> s] :
        s \in ParserStreams }
    \cup
    UNION { { [vendor |-> v, path |-> p, sink |-> k, stream |-> s] :
                p \in Paths, k \in Sinks, s \in StreamsOf(VendorRecords(v), {RecData(<<DocYo(v)>>)}, DelimLF) } :
            v \in Vendors }
    \cup
    UNION { { [vendor |-> v, path |-> p, sink |-> "handler",
               stream |-> RecData(<<d>>) \o DelimLF] :
                p \in Paths, d \in VendorExtraDocs(v) } :
            v \in Vendors }

\* ------------------------------------------------------------------------
\* One request: Response::handle_stream (path "request") or
\* Response::handle_mut_stream_use_convert (path "request_mut")
\* ------------------------------------------------------------------------

VARIABLES
    vendor,        \* the engine of the request
    path,          \* "request" or "request_mut"
    sink,          \* the handler bound to the request
    stream,        \* every byte the transport will carry
    pos,           \* how many of them have been read
    reader,        \* the SseStreamReader of the loop
    responses,     \* the frames of the current chunk the for loop has yet to take
    pc,            \* "next": at stream.next(); "for": in the for loop;
                   \* "ok": returned Ok(()); "err": returned the Err of the
                   \* closure or the handler; "err_read": returned the Err of
                   \* the transport; "panic": unwound from the assert! of
                   \* maybe_parse; "panic_unwrap": unwound from unwrap()
    delivered,     \* history: every call of the handler
    member_calls,  \* history: every call of a member of the Container
    adapted,       \* history: every frame given to the closure f
    emitted,       \* history: every frame maybe_parse returned
    tail_pos,      \* history: where in the stream each symbol of the tail came from
    tasks,         \* translate: the locals of each translate_task future
    recorders,     \* translate: the buf of each Recorder
    input,         \* library calls: the receiver and the arguments
    output         \* library calls: what the call built or returned

vars == <<vendor, path, sink, stream, pos, reader, responses, pc,
          delivered, member_calls, adapted, emitted, tail_pos, tasks, recorders,
          input, output>>

\* the library calls that prepare prompts run before any request
tool_vars == <<input, output>>

\* what the steps of one request leave alone: what the request was made
\* with, and the tasks of translate, which a single request does not have
config == <<vendor, path, sink, stream, tasks, recorders, tool_vars>>

Init ==
    /\ \E c \in Configs :
        /\ vendor = c.vendor
        /\ path = c.path
        /\ sink = c.sink
        /\ stream = c.stream
    /\ pos = 0
    /\ reader = SseStreamReader_new
    /\ responses = <<>>
    /\ pc = "next"
    /\ delivered = <<>>
    /\ member_calls = <<>>
    /\ adapted = <<>>
    /\ emitted = <<>>
    /\ tail_pos = <<>>
    /\ tasks = <<>>
    /\ recorders = <<>>
    /\ input = <<>>
    /\ output = <<>>

\* the frames in an order the for loop must not take them in: last first
batch_Reversed(frames, at, text_pos) ==
    [k \in 1..Len(frames) |->
       [frame |-> frames[Len(frames) + 1 - k], at |-> text_pos[at[Len(frames) + 1 - k] + 1]]]

\* the Vec the for loop iterates: the frames maybe_parse returned, in its
\* order, each with (history) its place in the stream
batch(frames, at, text_pos) ==
    [k \in 1..Len(frames) |-> [frame |-> frames[k], at |-> text_pos[at[k] + 1]]]

\* what reading a chunk does to the loop: reader.maybe_parse(s), then
\* `continue` on None, the for loop on Some(responses); text_pos is where in
\* the stream each symbol of tail + chunk came from
read_chunk(self, chunk, text_pos) ==
    LET r == maybe_parse(self, chunk)
    IN  IF r.panic
        THEN [reader |-> r.reader, pc |-> "panic", responses |-> <<>>,
              returned |-> <<>>, tail_pos |-> <<>>]
        ELSE IF r.ret.some
        THEN [reader |-> r.reader,
              pc |-> IF r.ret.val = <<>> THEN "next" ELSE "for",
              responses |-> batch(r.ret.val, r.at, text_pos),
              returned |-> r.ret.val,
              tail_pos |-> <<>>]
        ELSE [reader |-> r.reader, pc |-> "next", responses |-> <<>>,
              returned |-> <<>>,
              tail_pos |-> SubSeq(text_pos, 1, Len(r.reader.interrupted_data.val))]

\* stream.next() yields the next n bytes.  When std::str::from_utf8 rejects
\* them the Err arm prints the error and the loop goes on to the next chunk.
NextChunk(n) ==
    /\ pc = "next"
    /\ pos + n <= Len(stream)
    /\ pos' = pos + n
    /\ IF from_utf8(SubSeq(stream, pos + 1, pos + n)).ok
       THEN \E step \in {read_chunk(reader, SubSeq(stream, pos + 1, pos + n),
                                    tail_pos \o [i \in 1..n |-> pos + i])} :
               /\ reader' = step.reader
               /\ pc' = step.pc
               /\ responses' = step.responses
               /\ emitted' = emitted \o step.returned
               /\ tail_pos' = step.tail_pos
       ELSE UNCHANGED <<reader, pc, responses, emitted, tail_pos>>
    /\ UNCHANGED <<config, delivered, member_calls, adapted>>

\* stream.next() yields Some(Err(e)), a connection or read failure.
\* handle_stream returns it with `?` ("Failed to read stream");
\* handle_mut_stream_use_convert unwraps it, which panics.
TransportError ==
    /\ pc = "next"
    /\ pc' = IF path = "request" THEN "err_read" ELSE "panic_unwrap"
    /\ UNCHANGED <<config, pos, reader, responses, delivered, member_calls,
                   adapted, emitted, tail_pos>>

\* an end of the loop that reports a tail left in the reader as an error
StreamEnd_FailsOnTail ==
    /\ pc = "next"
    /\ pos = Len(stream)
    /\ pc' = IF reader.interrupted_data.some THEN "err" ELSE "ok"
    /\ UNCHANGED <<config, pos, reader, responses, delivered, member_calls,
                   adapted, emitted, tail_pos>>

\* stream.next() yields None: the loop ends and the function returns Ok(())
StreamEnd ==
    /\ pc = "next"
    /\ pos = Len(stream)
    /\ pc' = "ok"
    /\ UNCHANGED <<config, pos, reader, responses, delivered, member_calls,
                   adapted, emitted, tail_pos>>

\* an iteration that goes back to stream.next() with frames left in the Vec
Advance_ReadsAhead ==
    /\ responses' = Tail(responses)
    /\ pc' = "next"

\* an iteration that ends the function with Ok(()) once its frame is handled
Advance_ReturnsOk ==
    /\ responses' = Tail(responses)
    /\ pc' = "ok"

\* the end of one iteration of `for s in responses`
Advance ==
    /\ responses' = Tail(responses)
    /\ pc' = IF Tail(responses) = <<>> THEN "next" ELSE "for"

\* an Err that is dropped: the loop goes on to the next frame
ReturnErr_Continues == Advance

\* `?` on an Err: the function returns it
ReturnErr ==
    /\ responses' = responses
    /\ pc' = "err"

Call(item, text, ok) == [frame |-> item.frame, at |-> item.at, text |-> text, ok |-> ok]

\* a Container that goes on to the remaining members after a failure
container_handle_mut_BestEffort(resp, k, n) ==
    [calls |-> [i \in 1..Len(ContainerMembers) |->
                  [n |-> n, member |-> ContainerMembers[i], text |-> resp, ok |-> i # k]],
     ok |-> k = 0]

\* Container::handle_mut(resp) when the k-th member is the first to fail
\* (k = 0: none fails): the calls made, in order, and the result
container_handle_mut(resp, k, n) ==
    LET last == IF k = 0 THEN Len(ContainerMembers) ELSE k
    IN  [calls |-> [i \in 1..last |->
                      [n |-> n, member |-> ContainerMembers[i], text |-> resp, ok |-> i # k]],
         ok |-> k = 0]

\* Container::handle(resp)
container_handle(resp, n) == [calls |-> <<>>, ok |-> TRUE]

\* one iteration of the for loop of handle_stream: handler.handle(s) is the
\* closure f of request, which may call the sink's Handler::handle
ForHandleStream ==
    /\ pc = "for"
    /\ path = "request"
    /\ LET item == Head(responses)
           out == request_f(vendor, item.frame)
       IN  /\ adapted' = Append(adapted, item.frame)
           /\ CASE out.act = "skip" ->
                     /\ Advance
                     /\ UNCHANGED <<delivered, member_calls>>
                [] out.act = "err" ->
                     /\ ReturnErr
                     /\ UNCHANGED <<delivered, member_calls>>
                [] out.act = "handle" /\ sink = "handler" ->
                     \E ok \in BOOLEAN :
                        /\ delivered' = Append(delivered, Call(item, out.text, ok))
                        /\ member_calls' = member_calls
                        /\ IF ok THEN Advance ELSE ReturnErr
                [] out.act = "handle" /\ sink = "container" ->
                     LET res == container_handle(out.text, Len(delivered) + 1)
                     IN  /\ delivered' = Append(delivered, Call(item, out.text, res.ok))
                         /\ member_calls' = member_calls \o res.calls
                         /\ IF res.ok THEN Advance ELSE ReturnErr
    /\ UNCHANGED <<config, pos, reader, emitted, tail_pos>>

\* one iteration of the for loop of handle_mut_stream_use_convert: f(s)?, then
\* handler.handle_mut(s.as_str())
ForHandleMutStream ==
    /\ pc = "for"
    /\ path = "request_mut"
    /\ LET item == Head(responses)
           out == request_mut_f(vendor, item.frame)
       IN  /\ adapted' = Append(adapted, item.frame)
           /\ CASE out.act = "err" ->
                     /\ ReturnErr
                     /\ UNCHANGED <<delivered, member_calls>>
                [] out.act = "convert" /\ sink = "handler" ->
                     \E ok \in BOOLEAN :
                        /\ delivered' = Append(delivered, Call(item, out.text, ok))
                        /\ member_calls' = member_calls
                        /\ IF ok THEN Advance ELSE ReturnErr
                [] out.act = "convert" /\ sink = "container" ->
                     \E k \in 0..Len(ContainerMembers) :
                        LET res == container_handle_mut(out.text, k, Len(delivered) + 1)
                        IN  /\ delivered' = Append(delivered, Call(item, out.text, res.ok))
                            /\ member_calls' = member_calls \o res.calls
                            /\ IF res.ok THEN Advance ELSE ReturnErr
    /\ UNCHANGED <<config, pos, reader, emitted, tail_pos>>

Next ==
    \/ \E n \in 1..MaxChunkLen : NextChunk(n)
    \/ StreamEnd
    \/ TransportError
    \/ ForHandleStream
    \/ ForHandleMutStream

Spec == Init /\ [][Next]_vars

\* ------------------------------------------------------------------------
\* translate: join_all over one translate_task per request of to_requests.
\* Each task owns a Recorder and, inside request_mut, the stream, reader and
\* responses of handle_mut_stream_use_convert; the tasks share `ai` (&AI).
\* join_all polls the futures on one thread, one step of one future at a time.
\* ------------------------------------------------------------------------

\* the requests to_requests makes of "hello, world!" with separator ','
Tasks == {"hello,", "world!"}

\* the body the engine answers each request with
TaskStream(v, t) ==
    IF t = "hello,"
    THEN RecData(<<DocHi(v)>>) \o DelimLF \o RecData(<<DocYo(v)>>) \o DelimLF
    ELSE RecData(<<DocYo(v)>>) \o DelimLF

\* Recorder::new: buf is the empty String
Recorder_new == <<>>

\* Recorder::message: the text of buf
Recorder_message(buf) == buf

\* a handle_mut that keeps the latest fragment only
Recorder_handle_mut_Overwrites(buf, resp) == resp

\* Recorder::handle_mut: self.buf.push_str(resp); Ok(())
Recorder_handle_mut(buf, resp) == buf \o resp

\* Recorder::take, which translate_task calls and handlers/recorder.rs does
\* not define: the accumulated text, handed to the owner
Recorder_take(buf) == buf

\* one Recorder for all the tasks
translate_task_recorder_Shared(t) == "hello,"

\* `let mut recorder = Recorder::new()` in translate_task: the Recorder the
\* task's request writes to is the task's own
translate_task_recorder(t) == t

\* the single request of Spec does not run under translate
request_vars == <<path, sink, stream, pos, reader, responses, pc,
                  delivered, member_calls, adapted, emitted, tail_pos, tool_vars>>

InitTranslate ==
    /\ vendor \in Vendors
    /\ path = "request_mut"
    /\ sink = "handler"
    /\ stream = <<>>
    /\ pos = 0
    /\ reader = SseStreamReader_new
    /\ responses = <<>>
    /\ pc = "ok"
    /\ delivered = <<>>
    /\ member_calls = <<>>
    /\ adapted = <<>>
    /\ emitted = <<>>
    /\ tail_pos = <<>>
    /\ tasks = [t \in Tasks |->
                  [stream |-> TaskStream(vendor, t), pos |-> 0,
                   reader |-> SseStreamReader_new, responses |-> <<>>,
                   pc |-> "next", tail_pos |-> <<>>,
                   handled |-> <<>>, translated |-> None, rank |-> 0]]
    /\ recorders = [t \in Tasks |-> Recorder_new]
    /\ input = <<>>
    /\ output = <<>>

\* history: the rank among the futures of join_all of the next one to
\* complete
next_rank == Cardinality({u \in Tasks : tasks[u].rank > 0}) + 1

\* a panic in the future of task t unwinds through join_all, which drops
\* the futures that have not finished
unwound(t) ==
    [u \in Tasks |->
       IF u = t THEN [tasks[u] EXCEPT !.pc = "panic"]
       ELSE IF tasks[u].pc \in {"next", "for"} THEN [tasks[u] EXCEPT !.pc = "dropped"]
       ELSE tasks[u]]

\* task t: stream.next() yields the next n bytes
TaskNextChunk(t, n) ==
    LET self == tasks[t]
    IN  /\ self.pc = "next"
        /\ self.pos + n <= Len(self.stream)
        /\ IF from_utf8(SubSeq(self.stream, self.pos + 1, self.pos + n)).ok
           THEN \E step \in {read_chunk(self.reader,
                                        SubSeq(self.stream, self.pos + 1, self.pos + n),
                                        self.tail_pos \o [i \in 1..n |-> self.pos + i])} :
                   IF step.pc = "panic"
                   THEN tasks' = [unwound(t) EXCEPT ![t].pos = self.pos + n,
                                                    ![t].reader = step.reader]
                   ELSE tasks' = [tasks EXCEPT ![t] =
                                    [self EXCEPT !.pos = self.pos + n,
                                                 !.reader = step.reader,
                                                 !.responses = step.responses,
                                                 !.pc = step.pc,
                                                 !.tail_pos = step.tail_pos]]
           ELSE tasks' = [tasks EXCEPT ![t].pos = self.pos + n]
        /\ UNCHANGED <<vendor, request_vars, recorders>>

\* task t: stream.next() yields None; request_mut returns Ok(())
TaskStreamEnd(t) ==
    /\ tasks[t].pc = "next"
    /\ tasks[t].pos = Len(tasks[t].stream)
    /\ tasks' = [tasks EXCEPT ![t].pc = "ok"]
    /\ UNCHANGED <<vendor, request_vars, recorders>>

\* task t: stream.next() yields Some(Err(e)), which
\* handle_mut_stream_use_convert unwraps
TaskTransportError(t) ==
    /\ tasks[t].pc = "next"
    /\ tasks' = unwound(t)
    /\ UNCHANGED <<vendor, request_vars, recorders>>

\* task t: one iteration of the for loop: f(s)?, then Recorder::handle_mut,
\* which appends the fragment to buf and returns Ok(())
TaskFor(t) ==
    LET self == tasks[t]
        out == request_mut_f(vendor, Head(self.responses).frame)
    IN  /\ self.pc = "for"
        /\ IF out.act = "err"
           THEN /\ tasks' = [tasks EXCEPT ![t].pc = "err", ![t].rank = next_rank]
                /\ recorders' = recorders
           ELSE /\ tasks' = [tasks EXCEPT
                               ![t].responses = Tail(self.responses),
                               ![t].pc = IF Tail(self.responses) = <<>> THEN "next" ELSE "for",
                               ![t].handled = Append(@, out.text)]
                /\ recorders' = [recorders EXCEPT
                                   ![translate_task_recorder(t)] =
                                       Recorder_handle_mut(@, out.text)]
        /\ UNCHANGED <<vendor, request_vars>>

\* task t: request_mut returned Ok(()); translate_task builds its
\* TranslateResult with translated: recorder.take()
TaskTake(t) ==
    /\ tasks[t].pc = "ok"
    /\ tasks' = [tasks EXCEPT
                   ![t].pc = "done",
                   ![t].rank = next_rank,
                   ![t].translated =
                       Some(Recorder_take(recorders[translate_task_recorder(t)]))]
    /\ UNCHANGED <<vendor, request_vars, recorders>>

\* task t: the HTTP request fails before any byte of the body is read;
\* request_mut returns Err("Failed to request") and translate_task returns
\* it with `?`
TaskRequestFails(t) ==
    /\ tasks[t].pc = "next"
    /\ tasks[t].pos = 0
    /\ tasks' = [tasks EXCEPT ![t].pc = "err", ![t].rank = next_rank]
    /\ UNCHANGED <<vendor, request_vars, recorders>>

\* requests.into_iter(): the requests in the order to_requests made them
TaskOrder == <<"hello,", "world!">>

\* the Result of the future of task t, which has completed
translate_task_result(t) ==
    IF tasks[t].pc = "done"
    THEN [ok |-> TRUE, val |-> [from |-> t, translated |-> tasks[t].translated.val]]
    ELSE [ok |-> FALSE, val |-> <<>>]

\* .filter_map(|res| res.ok()).collect() of a Vec of Results
RECURSIVE filter_map_ok(_)
filter_map_ok(results) ==
    IF results = <<>> THEN <<>>
    ELSE (IF Head(results).ok THEN <<Head(results).val>> ELSE <<>>)
         \o filter_map_ok(Tail(results))

\* the results in the order in which the futures completed
join_all_CompletionOrder ==
    [k \in 1..Len(TaskOrder) |->
       translate_task_result(CHOOSE t \in Tasks : tasks[t].rank = k)]

\* futures::future::join_all(tasks).await: the results of the futures in
\* the order of the futures
join_all == [k \in 1..Len(TaskOrder) |-> translate_task_result(TaskOrder[k])]

\* every future of join_all has completed: translate returns
\* Ok(join_all(..).await.into_iter().filter_map(|res| res.ok()).collect())
TranslateReturn ==
    /\ \A t \in Tasks : tasks[t].pc \in {"done", "err"}
    /\ output = <<>>
    /\ output' = [ok |-> TRUE, val |-> filter_map_ok(join_all)]
    /\ UNCHANGED <<vendor, path, sink, stream, pos, reader, responses, pc,
                   delivered, member_calls, adapted, emitted, tail_pos,
                   tasks, recorders, input>>

NextTranslate ==
    \/ \E t \in Tasks :
       \/ \E n \in 1..MaxChunkLen : TaskNextChunk(t, n)
       \/ TaskStreamEnd(t)
       \/ TaskTransportError(t)
       \/ TaskFor(t)
       \/ TaskTake(t)
       \/ TaskRequestFails(t)
    \/ TranslateReturn

SpecTranslate == InitTranslate /\ [][NextTranslate]_vars

\* ------------------------------------------------------------------------
\* Vocabulary of the claims
\* ------------------------------------------------------------------------

\* the chunk the step reads, and the text maybe_parse parses in it
StepChunk == SubSeq(stream, pos + 1, pos')
StepText == parsed_text(reader, StepChunk)

\* the step is a call of maybe_parse (a chunk is read and is valid UTF-8)
ChunkRead == pc = "next" /\ pos' > pos /\ from_utf8(StepChunk).ok

\* the text ends mid-record: its last delimiter-split segment is not empty
EndsMidRecord(text) ==
    LET lines == split(text, delimiter(text)) IN lines[Len(lines)] # <<>>

\* the line starts with none of data:, event:, id:, retry:
UnknownPrefix(line) ==
    /\ ~starts_with(line, PrefixData)
    /\ ~starts_with(line, PrefixEvent)
    /\ ~starts_with(line, PrefixId)
    /\ ~starts_with(line, PrefixRetry)

\* the text holds a complete (delimiter-terminated) record with an unknown prefix
HasUnknownPrefixRecord(text) ==
    LET lines == split(text, delimiter(text))
    IN  \E i \in 1..(Len(lines) - 1) : lines[i] # <<>> /\ UnknownPrefix(lines[i])

\* a complete, well-formed payload: every record classifiable, ending on a delimiter
WellFormed(text) == from_chunk(text).tag = "Ok"

SinkFailed == \E i \in DOMAIN delivered : ~delivered[i].ok

IsDoneFrame(frame) == frame.kind = "Data" /\ starts_with(frame.text, DoneSentinel)

\* ------------------------------------------------------------------------
\* C1..C10
\* ------------------------------------------------------------------------

\* C1: fragmentation invariance.  Once a complete, well-formed payload has been
\* fed to maybe_parse in chunks, the frames of all the calls, concatenated, are
\* the frames from_chunk returns for the whole payload.
C1_FragmentationInvariance ==
    (pos = Len(stream) /\ WellFormed(stream)) => emitted = from_chunk(stream).frames

\* C2: a text that ends mid-record makes from_chunk report InterruptedData
\* carrying the whole text, and maybe_parse return no frames and buffer
\* exactly that text, whatever complete records precede the unterminated one.
C2_InterruptedCarriesWholeText ==
    [][ChunkRead =>
          LET text == StepText
          IN  EndsMidRecord(text) =>
                /\ from_chunk(text) = InterruptedData(text)
                /\ reader'.interrupted_data = Some(text)
                /\ responses' = <<>>
                /\ emitted' = emitted]_vars

\* what a reader with nothing buffered makes of the text
FreshParse(text) == maybe_parse(SseStreamReader_new, text)

\* the call with a tail buffered ends as parsing tail + chunk does: the same
\* frames are returned and the same tail (none, when frames are) is left
ReturnsParseOfConcatenation ==
    LET fresh == FreshParse(reader.interrupted_data.val \o StepChunk)
    IN  /\ pc' # "panic"
        /\ reader'.interrupted_data = fresh.reader.interrupted_data
        /\ IF fresh.ret.some
           THEN /\ emitted' = emitted \o fresh.ret.val
                /\ [k \in DOMAIN responses' |-> responses'[k].frame] = fresh.ret.val
                /\ ~reader'.interrupted_data.some
           ELSE /\ emitted' = emitted
                /\ responses' = <<>>

C4_UnknownPrefixIsFatal ==
    [][ChunkRead =>
          LET text == StepText
          IN  HasUnknownPrefixRecord(text) =>
                /\ from_chunk(text).tag # "InterruptedData"
                /\ ~reader'.interrupted_data.some
                /\ pc' = "err"]_vars

\* C5: the [DONE] frame of OpenAI never reaches the sink, on either path.
C5_DoneNeverReachesSink ==
    vendor = "openai" => \A i \in DOMAIN delivered : ~IsDoneFrame(delivered[i].frame)

\* the adapter has yielded termination
Terminated == vendor = "openai" /\ \E i \in DOMAIN adapted : IsDoneFrame(adapted[i])

\* C6: once the adapter has yielded termination the loop is over: no frame is
\* adapted, none delivered and no chunk read any more.
C6_TerminationEndsLoop ==
    [][Terminated => (pos' = pos /\ adapted' = adapted /\ delivered' = delivered)]_vars

\* C7: a sink failure is immediately fatal.  The failed call is the last call
\* of the handler, the request has returned Err, and from then on no chunk is
\* read and no frame adapted or delivered.
C7_SinkFailureIsFatal ==
    /\ [](SinkFailed =>
            /\ pc = "err"
            /\ \A i \in DOMAIN delivered : ~delivered[i].ok => i = Len(delivered))
    /\ [][SinkFailed => (pos' = pos /\ adapted' = adapted /\ delivered' = delivered
                         /\ member_calls' = member_calls /\ pc' = pc)]_vars

\* C7 witness: the sink failed on the first of two frames of one chunk, so a
\* frame of the same batch is left undelivered
C7_Witness ==
    /\ SinkFailed
    /\ Len(delivered) = 1
    /\ Len(responses) = 2

\* the calls of the Container's members made for the n-th call of the handler
CallsFor(n) == SelectSeq(member_calls, LAMBDA c : c.n = n)

\* C8: for each fragment the Container calls its members one after another in
\* the declared order, each with the fragment; the first failure ends the
\* calls for that fragment, is the Container's result, and fails the request.
C8_ContainerShortCircuit ==
    (sink = "container" /\ path = "request_mut") =>
       /\ \A n \in DOMAIN delivered :
            LET calls == CallsFor(n)
            IN  /\ Len(calls) \in 1..Len(ContainerMembers)
                /\ \A i \in DOMAIN calls :
                     /\ calls[i].member = ContainerMembers[i]
                     /\ calls[i].text = delivered[n].text
                     /\ (i < Len(calls) => calls[i].ok)
                /\ delivered[n].ok = calls[Len(calls)].ok
                /\ (delivered[n].ok => Len(calls) = Len(ContainerMembers))
       /\ \A j \in DOMAIN member_calls :
            /\ (j > 1 => member_calls[j - 1].n <= member_calls[j].n)
            /\ (~member_calls[j].ok => (j = Len(member_calls) /\ pc = "err"))

\* C8 witness: the second of the three members failed on the second fragment
C8_Witness ==
    /\ sink = "container"
    /\ path = "request_mut"
    /\ Len(delivered) = 2
    /\ Len(CallsFor(2)) = 2
    /\ ~member_calls[Len(member_calls)].ok
    /\ pc = "err"

\* C9: the handler is called on frames in the order of their places in the
\* transport stream, and never twice on the same frame.
C9_InOrderExactlyOnce ==
    /\ \A i, j \in DOMAIN delivered : i < j => delivered[i].at < delivered[j].at
    /\ \A i \in DOMAIN delivered :
         /\ delivered[i].at \in 1..pos
         /\ \E k \in DOMAIN emitted : emitted[k] = delivered[i].frame

\* C9 witness: two frames delivered, the first of which had been buffered in a
\* tail and parsed again
C9_Witness ==
    /\ Len(delivered) = 2
    /\ reader.call_time >= 1
    /\ delivered[1].text = Hi
    /\ delivered[2].text = Yo

\* the frame is a Data frame the vendor's decoder rejects
DecodeFails(v, frame) ==
    /\ frame.kind = "Data"
    /\ CASE v = "claude" -> ~from_str(ClaudeDocs, frame.text).ok
         [] v = "openai" -> ~ChatResponse_try_from(frame.text).ok
         [] v = "gemini" -> ~from_str(GeminiDocs, frame.text).ok

\* C10: a frame the decoder rejects never fails the request: if the request
\* returned Err at such a frame, it is the sink that failed on it.
C10_DecodeFailureNotPropagated ==
    (pc = "err" /\ adapted # <<>> /\ DecodeFails(vendor, adapted[Len(adapted)])) =>
        /\ delivered # <<>>
        /\ delivered[Len(delivered)].frame = adapted[Len(adapted)]
        /\ ~delivered[Len(delivered)].ok

\* C11: Event, Id and Retry frames are ignored by every adapter on both
\* paths: the sink is never called for one, and the request never returns
\* Err at one.
C11_NonDataIgnored ==
    /\ \A i \in DOMAIN delivered : delivered[i].frame.kind = "Data"
    /\ (pc = "err" /\ adapted # <<>>) => adapted[Len(adapted)].kind = "Data"

\* the request has returned an error result
Failed == pc \in {"err", "err_read"}

\* the step is stream.next() yielding bytes that are not valid UTF-8
BadUtf8Read == pc = "next" /\ pos' > pos /\ ~from_utf8(StepChunk).ok

\* C12: a transport error (a read failure, or a chunk that is not valid
\* UTF-8) is fatal: the chunk is abandoned and the request has returned an
\* error, so that no later chunk is parsed or delivered.
C12_TransportErrorIsFatal ==
    [][(TransportError \/ BadUtf8Read) =>
          /\ Failed'
          /\ reader' = reader
          /\ emitted' = emitted
          /\ delivered' = delivered]_vars

\* C13: every call of maybe_parse that finds a tail buffered increments the
\* counter, and the call on which the counter passes its bound makes the
\* request return an error, with no tail buffered any more.
C13_ReassemblyLimitIsAnError ==
    [][(ChunkRead /\ reader.interrupted_data.some) =>
          /\ reader'.call_time = reader.call_time + 1
          /\ ~(reader.call_time + 1 < CallTimeLimit) =>
                /\ Failed'
                /\ ~reader'.interrupted_data.some]_vars

\* the text is one complete record classified as Event whose value holds "\ndata: "
OneEventRecordWithData(text) ==
    LET lines == split(text, delimiter(text))
    IN  /\ Len(lines) = 2
        /\ lines[2] = <<>>
        /\ starts_with(lines[1], PrefixEvent)
        /\ contains(trim(lines[1], PrefixEvent), EventDataSep)

\* the two frames the split at the first "\ndata: " of the value gives
SplitAtFirst(value) ==
    LET i == find(value, EventDataSep)
    IN  <<Event(SubSeq(value, 1, i - 1)),
          Data(SubSeq(value, i + Len(EventDataSep), Len(value)))>>

\* C14: an Event record whose value holds "\ndata: " yields exactly two
\* frames, Event(the value before the first occurrence) and Data(all of the
\* value after it), however many occurrences follow.
C14_EventSplitAtFirstOnly ==
    [][(ChunkRead /\ pc' # "panic") =>
          LET text == StepText
          IN  OneEventRecordWithData(text) =>
                emitted' = emitted \o
                   SplitAtFirst(trim(split(text, delimiter(text))[1], PrefixEvent))]_vars

\* the frames of the records, in order: those of each record that is not empty
FramesOf(records) ==
    Concat([i \in 1..Len(records) |->
              IF records[i] = <<>> THEN <<>>
              ELSE record_frames(extract_str(records[i]).val)])

\* every record is empty or classifiable, and the last one is empty (the text
\* ends on the delimiter)
CompleteRecords(records) ==
    /\ records[Len(records)] = <<>>
    /\ \A i \in DOMAIN records : records[i] # <<>> => extract_str(records[i]).some

\* C15: the delimiter is detected per text parsed: "\r\n\r\n" when the text
\* holds it anywhere, and then "\n\n" stays inside the record values;
\* "\n\n" otherwise.  The records are the pieces between that delimiter alone.
C15_DelimiterPerChunk ==
    [][(ChunkRead /\ pc' # "panic") =>
          LET text == StepText
              records == IF contains(text, DelimCRLF)
                         THEN split(text, DelimCRLF)
                         ELSE split(text, DelimLF)
          IN  CompleteRecords(records) =>
                /\ emitted' = emitted \o FramesOf(records)
                /\ ~reader'.interrupted_data.some]_vars

\* C15 witness: "data: a\n\nb\r\n\r\n" was parsed as one text and gave the
\* one frame Data("a\n\nb")
C15_Witness ==
    /\ stream = RecData(<<"a", LF, LF, "b">>) \o DelimCRLF
    /\ emitted = <<Data(<<"a", LF, LF, "b">>)>>

\* the text ends exactly at a record delimiter
EndsAtDelimiter(text) ==
    LET d == delimiter(text)
    IN  Len(text) >= Len(d) /\ SubSeq(text, Len(text) - Len(d) + 1, Len(text)) = d

\* C16: no loss on exact boundary.  After maybe_parse has processed a chunk
\* that ends exactly at a record delimiter no tail is buffered.
C16_NoTailOnExactBoundary ==
    [][ChunkRead => (EndsAtDelimiter(StepText) => ~reader'.interrupted_data.some)]_vars

\* the record is a retry: record whose value is not a non-negative integer
BadRetry(record) ==
    starts_with(record, PrefixRetry) /\ ~parse_u32(trim(record, PrefixRetry)).ok

\* the frames of the records with the bad retry: records left out
FramesWithoutBadRetry(records) ==
    FramesOf([i \in 1..Len(records) |-> IF BadRetry(records[i]) THEN <<>> ELSE records[i]])

\* C17: a retry: record whose value does not parse is dropped: the text it
\* is in gives the frames of its other records, and no tail is buffered
\* because of it.
C17_BadRetryIsDropped ==
    [][(ChunkRead /\ pc' # "panic") =>
          LET records == split(StepText, delimiter(StepText))
          IN  (/\ records[Len(records)] = <<>>
               /\ \E i \in DOMAIN records : BadRetry(records[i])
               /\ \A i \in DOMAIN records :
                    records[i] = <<>> \/ BadRetry(records[i]) \/ extract_str(records[i]).some)
              => /\ emitted' = emitted \o FramesWithoutBadRetry(records)
                 /\ ~reader'.interrupted_data.some]_vars

\* the record that starts at place at of the stream is terminated by a
\* delimiter within the bytes received so far
TerminatedAt(at) ==
    \E d \in {DelimLF, DelimCRLF} :
       \E e \in (at + Len(d))..pos : SubSeq(stream, e - Len(d) + 1, e) = d

\* C18: no partial frame is delivered.  Every frame returned for delivery
\* and every fragment delivered comes from a record terminated by a delimiter
\* within the bytes received, and when the transport has closed nothing but
\* the frames returned before has been adapted.
C18_NoPartialFrame ==
    /\ \A i \in DOMAIN delivered : TerminatedAt(delivered[i].at)
    /\ \A i \in DOMAIN responses : TerminatedAt(responses[i].at)
    /\ pc = "ok" => (responses = <<>> /\ adapted = emitted)

\* C18 witness: the transport closed in the middle of the second record; the
\* first record was delivered and the remainder is still in the tail
C18_Witness ==
    /\ pc = "ok"
    /\ stream \in TruncatedStreams
    /\ reader.interrupted_data.some
    /\ Len(delivered) = 1
    /\ delivered[1].frame = Data(<<"a">>)

\* the fragments of a task's own stream, in order, as one string: what the
\* request gives its Recorder when it runs alone and reads the body in one chunk
OwnFragments(v, t) ==
    LET frames == from_chunk(TaskStream(v, t)).frames
    IN  Concat([k \in 1..Len(frames) |-> request_mut_f(v, frames[k]).text])

IsPrefix(a, b) == Len(a) <= Len(b) /\ SubSeq(b, 1, Len(a)) = a

\* C19: under every interleaving of the chunk arrivals of the concurrent
\* requests of translate, each request's Recorder holds fragments of its own
\* stream only, in order, and all of them once the request has returned Ok;
\* and a step of one request changes no other request's tail, counter,
\* position or pending frames.
C19_ConcurrentRequestsIsolated ==
    /\ [](\A t \in Tasks :
            /\ IsPrefix(recorders[t], OwnFragments(vendor, t))
            /\ tasks[t].pc = "ok" => recorders[t] = OwnFragments(vendor, t))
    /\ [][\A t \in Tasks :
            (tasks'[t].pos # tasks[t].pos \/ tasks'[t].responses # tasks[t].responses) =>
               \A u \in Tasks \ {t} :
                  /\ tasks'[u].reader = tasks[u].reader
                  /\ tasks'[u].pos = tasks[u].pos
                  /\ tasks'[u].responses = tasks[u].responses
                  /\ recorders'[u] = recorders[u]]_vars

\* C19 witness: both requests have a tail buffered at once, the first after
\* its first fragment was recorded, and both go on to finish
C19_Witness ==
    /\ tasks["hello,"].reader.interrupted_data.some
    /\ tasks["world!"].reader.interrupted_data.some
    /\ tasks["hello,"].reader.call_time >= 1
    /\ recorders["hello,"] = Hi
    /\ recorders["world!"] = <<>>

\* the states of a request: Receiving while the loop runs, Terminating from
\* the adapter's termination signal on, Closed once it has returned Ok(())
Receiving == pc \in {"next", "for"} /\ ~Terminated
Terminating == pc \in {"next", "for"} /\ Terminated
Closed == pc = "ok"

\* C20: a request is Receiving, Terminating, Closed or Failed.  Failed is
\* terminal; Terminating is left for Closed only, so that a request whose
\* adapter has signalled termination never fails; Closed is terminal too, so
\* that no request ends both Closed and Failed.
C20_RequestStateMachine ==
    /\ [][Failed => (pc' = pc /\ pos' = pos /\ delivered' = delivered)]_vars
    /\ [][Closed => pc' = pc]_vars
    /\ [][Terminating => (Terminating' \/ Closed')]_vars
    /\ [](Terminated => (Terminating \/ Closed))

\* the document is a payload of vendor v that expresses the delta text t:
\* Claude's delta.text, the delta.content of OpenAI's one choice, the text of
\* the first part of Gemini's first candidate
ExpressesDelta(v, doc, t) ==
    CASE v = "claude" ->
           doc \in DOMAIN ClaudeDocs /\ ClaudeDocs[doc].delta.text = t
      [] v = "openai" ->
           /\ doc \in DOMAIN OpenAIDocs
           /\ Len(OpenAIDocs[doc].choices) = 1
           /\ OpenAIDocs[doc].choices[1].delta.content = Some(t)
      [] v = "gemini" ->
           /\ doc \in DOMAIN GeminiDocs
           /\ GeminiDocs[doc].candidates # <<>>
           /\ GeminiDocs[doc].candidates[1].content.parts # <<>>
           /\ GeminiDocs[doc].candidates[1].content.parts[1].text = t

\* the delta texts of the payloads
DeltaTexts == {Hi, Yo, <<>>}

\* C21: vendor normalization equivalence.  Whatever the vendor, a payload
\* that expresses the delta text t makes the sink receive exactly t.
C21_VendorNormalization ==
    \A i \in DOMAIN delivered :
       \A t \in DeltaTexts :
          (/\ delivered[i].frame.kind = "Data"
           /\ Len(delivered[i].frame.text) = 1
           /\ ExpressesDelta(vendor, delivered[i].frame.text[1], t))
          => delivered[i].text = t

\* C21 witness: Gemini's payload with two candidates, the first of which
\* says Hi, was delivered
C21_Witness ==
    /\ vendor = "gemini"
    /\ delivered # <<>>
    /\ delivered[1].frame = Data(<<"{gemini:[Hi],[Yo]}">>)
    /\ delivered[1].text = Hi

\* C22: Recorder.  After any sequence of handle_mut calls the text the
\* Recorder accumulated, read by message() or handed out by take(), is the
\* concatenation of the fragments it was given, in the order given; before
\* the first call it is empty.
C22_RecorderConcatenates ==
    \A t \in Tasks :
       /\ Recorder_message(recorders[t]) = Concat(tasks[t].handled)
       /\ tasks[t].translated.some =>
             tasks[t].translated.val = Concat(tasks[t].handled)

\* C22 witness: a Recorder was given Hi and then Yo, and its owner took the
\* text
C22_Witness ==
    /\ tasks["hello,"].handled = <<Hi, Yo>>
    /\ tasks["hello,"].translated = Some(Hi \o Yo)

\* how many frames a record stands for: none when it is empty, two when it
\* is an event record that carries data, one otherwise
FrameCount(record) ==
    IF record = <<>> THEN 0
    ELSE IF starts_with(record, PrefixEvent) /\ contains(record, EventDataSep) THEN 2
    ELSE 1

RECURSIVE SumFrameCount(_)
SumFrameCount(records) ==
    IF records = <<>> THEN 0
    ELSE FrameCount(Head(records)) + SumFrameCount(Tail(records))

\* the prefix a frame of this kind was classified by
PrefixOf(kind) ==
    CASE kind = "Data" -> PrefixData
      [] kind = "Event" -> PrefixEvent
      [] kind = "Id" -> PrefixId
      [] kind = "Retry" -> PrefixRetry

\* C23: the frames from_chunk returns for one text are in the order of the
\* records in the text: one frame for each classified record, two for an
\* event record that carries data, none for an empty segment.
C23_FramesInRecordOrder ==
    [][(ChunkRead /\ responses' # <<>>) =>
          \E records \in {split(StepText, delimiter(StepText))} :
              /\ Len(responses') = SumFrameCount(records)
              /\ \A i, j \in DOMAIN responses' :
                    i < j => responses'[i].at < responses'[j].at
              /\ \A i \in DOMAIN responses' :
                    \/ starts_with(SubSeq(stream, responses'[i].at, Len(stream)),
                                   PrefixOf(responses'[i].frame.kind))
                    \/ /\ i > 1
                       /\ responses'[i].frame.kind = "Data"
                       /\ responses'[i - 1].frame.kind = "Event"
                       /\ responses'[i].at = responses'[i - 1].at + 1]_vars

\* C23 witness: one text of two records, an event record that carries data
\* and a data record, gave three frames
C23_Witness ==
    /\ Len(responses) = 3
    /\ responses[1].frame.kind = "Event"
    /\ responses[2].frame.kind = "Data"
    /\ responses[3].frame.kind = "Data"
    /\ responses[3].at > responses[2].at

\* the frame a record prefix announces, for the value x
FrameOf(prefix, x) ==
    CASE prefix = PrefixData -> Data(x)
      [] prefix = PrefixEvent -> Event(x)
      [] prefix = PrefixId -> Id(x)
      [] prefix = PrefixRetry -> Retry(parse_u32(x).val)

RecordPrefixes == {PrefixData, PrefixEvent, PrefixId, PrefixRetry}

\* x is a value a record can carry after the prefix p as it stands: not
\* empty, no whitespace at either end, not the prefix again, a number for
\* retry and no data line for event
PlainValue(p, x) ==
    /\ x # <<>>
    /\ x[1] \notin WhiteSpace
    /\ x[Len(x)] \notin WhiteSpace
    /\ ~starts_with(x, p)
    /\ p = PrefixRetry => parse_u32(x).ok
    /\ p = PrefixEvent => ~contains(x, EventDataSep)

C24_WitnessUpper ==
    /\ starts_with(stream, RecUpper \o DelimLF)
    /\ reader.interrupted_data = Some(RecUpper)
    /\ emitted = <<>>

\* ------------------------------------------------------------------------
\* Library calls that prepare prompts: TranslateRequests::to_requests,
\* Prompt::split_by_max_length and Conversation
\* ------------------------------------------------------------------------

\* the sequences over the alphabet of length at most n
StringsUpTo(alphabet, n) == UNION { [1..k -> alphabet] : k \in 0..n }

MaxSourceLen == 5

\* the characters of the sources to translate
SourceChars == {"a", SP, ",", "."}

\* the separators a caller sets (main.rs sets some, new() sets none)
SeparatorSets == { {}, {","}, {",", "."} }

MaxSeparatePerLimit == 2

\* str::split_inclusive(|c| separators.contains(&c)) from index i on, the
\* piece in the making starting at index start; each piece with `at`, the
\* index in the source of its first character (history: the code keeps the
\* text alone)
RECURSIVE split_inclusive_from(_, _, _, _)
split_inclusive_from(s, separators, i, start) ==
    IF i > Len(s)
    THEN IF start <= Len(s)
         THEN <<[text |-> SubSeq(s, start, Len(s)), at |-> start]>>
         ELSE <<>>
    ELSE IF s[i] \in separators
    THEN <<[text |-> SubSeq(s, start, i), at |-> start]>>
         \o split_inclusive_from(s, separators, i + 1, i + 1)
    ELSE split_inclusive_from(s, separators, i + 1, start)

split_inclusive(s, separators) == split_inclusive_from(s, separators, 1, 1)

\* last.chars().filter(|c| self.separators.contains(c)).count()
split_count(last, separators) ==
    Cardinality({i \in DOMAIN last : last[i] \in separators})

\* the closure of the fold without the test for the leading space
to_requests_step_NoSpaceCheck(acc, sentence, separators, separate_per_limit) ==
    IF sentence.text = <<>> THEN acc
    ELSE IF acc = <<>> THEN <<[source |-> sentence.text, at |-> sentence.at]>>
    ELSE LET last == acc[Len(acc)]
             front == SubSeq(acc, 1, Len(acc) - 1)
         IN  IF split_count(last.source, separators) < separate_per_limit
             THEN Append(front, [last EXCEPT !.source = @ \o sentence.text])
             ELSE Append(acc, [source |-> str_trim(sentence.text), at |-> sentence.at])

\* the closure of the fold in to_requests: acc is the Vec of the requests'
\* sources, each with `at`, where in the source its first piece began
\* (history)
to_requests_step(acc, sentence, separators, separate_per_limit) ==
    IF sentence.text = <<>> THEN acc
    ELSE IF acc = <<>> THEN <<[source |-> sentence.text, at |-> sentence.at]>>
    ELSE LET last == acc[Len(acc)]
             front == SubSeq(acc, 1, Len(acc) - 1)
         IN  IF ~starts_with(sentence.text, <<SP>>)
             THEN Append(front, [last EXCEPT !.source = @ \o sentence.text])
             ELSE IF split_count(last.source, separators) < separate_per_limit
             THEN Append(front, [last EXCEPT !.source = @ \o sentence.text])
             ELSE Append(acc, [source |-> str_trim(sentence.text), at |-> sentence.at])

RECURSIVE to_requests_fold(_, _, _, _)
to_requests_fold(acc, sentences, separators, separate_per_limit) ==
    IF sentences = <<>> THEN acc
    ELSE to_requests_fold(to_requests_step(acc, Head(sentences), separators, separate_per_limit),
                          Tail(sentences), separators, separate_per_limit)

\* TranslateRequests::to_requests
to_requests(self) ==
    IF self.separators = {}
    THEN <<[source |-> self.source, at |-> 1]>>
    ELSE to_requests_fold(<<>>, split_inclusive(self.source, self.separators),
                          self.separators, self.separate_per_limit)

\* TranslateRequests::new(source, ..).separators(..).separate_per_limit(..)
TranslateRequestsInputs ==
    { [op |-> "to_requests", source |-> s, separators |-> seps, separate_per_limit |-> n] :
        s \in StringsUpTo(SourceChars, MaxSourceLen),
        seps \in SeparatorSets,
        n \in 0..MaxSeparatePerLimit }

MaxMessageLen == 5
MaxLengthLimit == 6

\* Prompt::SPLIT_CHARACTERS, as far as the messages of the model hold them
SPLIT_CHARACTERS == {".", "!"}

\* the characters of the messages to split; e-acute takes two bytes
MessageChars == {"a", "e-acute", ".", "!"}

\* str::len: the length in bytes
RECURSIVE str_len(_)
str_len(s) ==
    IF s = <<>> THEN 0
    ELSE (IF Head(s) = "e-acute" THEN 2 ELSE 1) + str_len(Tail(s))

\* str::split(|c| SPLIT_CHARACTERS.contains(&c)) from index i on, the piece
\* in the making starting at index start
RECURSIVE split_chars_from(_, _, _)
split_chars_from(s, i, start) ==
    IF i > Len(s) THEN <<SubSeq(s, start, Len(s))>>
    ELSE IF s[i] \in SPLIT_CHARACTERS
    THEN <<SubSeq(s, start, i - 1)>> \o split_chars_from(s, i + 1, i + 1)
    ELSE split_chars_from(s, i + 1, start)

split_chars(s) == split_chars_from(s, 1, 1)

\* Ask { question, role_play: None }
Ask(question) == [question |-> question, role_play |-> None]

\* the closure of the fold with < for <=
split_by_max_length_step_Strict(acc, sentence, base_message, max_length) ==
    IF sentence = <<>> THEN acc
    ELSE IF acc = <<>> THEN <<Ask(base_message \o sentence \o <<".">>)>>
    ELSE LET last == acc[Len(acc)]
         IN  IF str_len(last.question) + str_len(sentence) + 1 < max_length
             THEN [acc EXCEPT ![Len(acc)].question = @ \o sentence \o <<".">>]
             ELSE Append(acc, Ask(base_message \o sentence \o <<".">>))

\* the closure of the fold in split_by_max_length
split_by_max_length_step(acc, sentence, base_message, max_length) ==
    IF sentence = <<>> THEN acc
    ELSE IF acc = <<>> THEN <<Ask(base_message \o sentence \o <<".">>)>>
    ELSE LET last == acc[Len(acc)]
         IN  IF str_len(last.question) + str_len(sentence) + 1 <= max_length
             THEN [acc EXCEPT ![Len(acc)].question = @ \o sentence \o <<".">>]
             ELSE Append(acc, Ask(base_message \o sentence \o <<".">>))

RECURSIVE split_by_max_length_fold(_, _, _, _)
split_by_max_length_fold(acc, sentences, base_message, max_length) ==
    IF sentences = <<>> THEN acc
    ELSE split_by_max_length_fold(
             split_by_max_length_step(acc, Head(sentences), base_message, max_length),
             Tail(sentences), base_message, max_length)

\* Prompt::split_by_max_length; each element of the result is the Ask of a
\* Prompt::Ask
split_by_max_length(base_message, message, max_length) ==
    split_by_max_length_fold(<<>>, split_chars(message), base_message, max_length)

\* the arguments of split_by_max_length
SplitByMaxLengthInputs ==
    { [op |-> "split_by_max_length", base_message |-> b, message |-> m, max_length |-> n] :
        b \in {<<>>, <<"T", ":">>},
        m \in StringsUpTo(MessageChars, MaxMessageLen),
        n \in 0..MaxLengthLimit }

MaxCalls == 3

\* Message { role, content }
Message(role, content) == [role |-> role, content |-> content]

\* Conversation::new: messages is the empty Vec
Conversation_new == <<>>

\* Conversation::add_role_play_message, on the messages of self
add_role_play_message(messages, content) == Append(messages, Message("RolePlay", content))

\* Conversation::add_user_message
add_user_message(messages, content) == Append(messages, Message("User", content))

\* an add_ai_message that files the message under the user's role
add_ai_message_AsUser(messages, content) == Append(messages, Message("User", content))

\* Conversation::add_ai_message
add_ai_message(messages, content) == Append(messages, Message("AI", content))

\* Conversation::messages, which consumes self
Conversation_messages(messages) == messages

\* the contents of the messages
Contents == {Hi, Yo}

\* a Conversation yet to be made; calls is the history of the add_ calls
ConversationInputs == { [op |-> "conversation", calls |-> <<>>] }

ToolInputs == TranslateRequestsInputs \cup SplitByMaxLengthInputs \cup ConversationInputs

InitTools ==
    /\ vendor = "claude"
    /\ path = "request"
    /\ sink = "handler"
    /\ stream = <<>>
    /\ pos = 0
    /\ reader = SseStreamReader_new
    /\ responses = <<>>
    /\ pc = "ok"
    /\ delivered = <<>>
    /\ member_calls = <<>>
    /\ adapted = <<>>
    /\ emitted = <<>>
    /\ tail_pos = <<>>
    /\ tasks = <<>>
    /\ recorders = <<>>
    /\ input \in ToolInputs
    /\ output = None

\* what a library call leaves alone
tool_frame == <<vendor, path, sink, stream, pos, reader, responses, pc,
                delivered, member_calls, adapted, emitted, tail_pos, tasks, recorders>>

\* translate calls request.to_requests()
ToRequests ==
    /\ input.op = "to_requests"
    /\ output = None
    /\ output' = Some(to_requests(input))
    /\ UNCHANGED <<input, tool_frame>>

\* a caller splits a large message into prompts
SplitByMaxLength ==
    /\ input.op = "split_by_max_length"
    /\ output = None
    /\ output' = Some(split_by_max_length(input.base_message, input.message, input.max_length))
    /\ UNCHANGED <<input, tool_frame>>

\* let mut conversation = Conversation::new()
ConversationNew ==
    /\ input.op = "conversation"
    /\ output = None
    /\ output' = Some([messages |-> Conversation_new, returned |-> None])
    /\ UNCHANGED <<input, tool_frame>>

\* the conversation is there, has not been consumed, and takes another call
Callable ==
    /\ input.op = "conversation"
    /\ output.some
    /\ ~output.val.returned.some
    /\ Len(input.calls) < MaxCalls

AddRolePlayMessage(content) ==
    /\ Callable
    /\ output' = Some([output.val EXCEPT !.messages = add_role_play_message(@, content)])
    /\ input' = [input EXCEPT !.calls = Append(@, [fn |-> "add_role_play_message", content |-> content])]
    /\ UNCHANGED tool_frame

AddUserMessage(content) ==
    /\ Callable
    /\ output' = Some([output.val EXCEPT !.messages = add_user_message(@, content)])
    /\ input' = [input EXCEPT !.calls = Append(@, [fn |-> "add_user_message", content |-> content])]
    /\ UNCHANGED tool_frame

AddAiMessage(content) ==
    /\ Callable
    /\ output' = Some([output.val EXCEPT !.messages = add_ai_message(@, content)])
    /\ input' = [input EXCEPT !.calls = Append(@, [fn |-> "add_ai_message", content |-> content])]
    /\ UNCHANGED tool_frame

\* conversation.messages()
Messages ==
    /\ input.op = "conversation"
    /\ output.some
    /\ ~output.val.returned.some
    /\ output' = Some([output.val EXCEPT
                         !.returned = Some(Conversation_messages(output.val.messages))])
    /\ UNCHANGED <<input, tool_frame>>

NextTools ==
    \/ ToRequests
    \/ SplitByMaxLength
    \/ ConversationNew
    \/ \E content \in Contents :
          \/ AddRolePlayMessage(content)
          \/ AddUserMessage(content)
          \/ AddAiMessage(content)
    \/ Messages

SpecTools == InitTools /\ [][NextTools]_vars

\* the source from index a to index b
Segment(self, a, b) == SubSeq(self.source, a, b)

\* where in the source the segment of request k ends
SegmentEnd(self, requests, k) ==
    IF k = Len(requests) THEN Len(self.source) ELSE requests[k + 1].at - 1

\* C25: to_requests starts a new request only at a piece that begins with a
\* space, and only once the current request holds at least
\* separate_per_limit separators; every other piece is appended to the
\* current request, so the requests are consecutive segments of the source
\* that lose white space at their ends alone.  With no separators the whole
\* source is one request.
C25_RequestGrouping ==
    (input.op = "to_requests" /\ output.some) =>
       LET requests == output.val
       IN  /\ input.separators = {} => requests = <<[source |-> input.source, at |-> 1]>>
           /\ input.separators # {} =>
                /\ requests # <<>> => requests[1].at = 1
                /\ requests = <<>> => input.source = <<>>
                /\ \A k \in DOMAIN requests :
                      /\ str_trim(requests[k].source) =
                            str_trim(Segment(input, requests[k].at, SegmentEnd(input, requests, k)))
                      /\ k = 1 =>
                            requests[k].source =
                               Segment(input, 1, SegmentEnd(input, requests, k))
                      /\ k > 1 =>
                            /\ input.source[requests[k].at] = SP
                            /\ input.source[requests[k].at - 1] \in input.separators
                            /\ split_count(Segment(input, requests[k - 1].at, requests[k].at - 1),
                                           input.separators) >= input.separate_per_limit

\* C25 witness: ", a,a" with "," as the separator and a limit of one gave
\* "," and "a,a": " a," began a request and "a" was appended to it
C25_Witness ==
    /\ input.op = "to_requests"
    /\ input.source = <<",", SP, "a", ",", "a">>
    /\ input.separators = {","}
    /\ input.separate_per_limit = 1
    /\ output = Some(<<[source |-> <<",">>, at |-> 1],
                       [source |-> <<"a", ",", "a">>, at |-> 2]>>)

\* the message with every run of split characters made one "." and a "."
\* after its last sentence: the sentences in order, the empty ones left out
RECURSIVE SentencesWithPeriods(_, _, _)
SentencesWithPeriods(s, i, in_sentence) ==
    IF i > Len(s) THEN (IF in_sentence THEN <<".">> ELSE <<>>)
    ELSE IF s[i] \in SPLIT_CHARACTERS
    THEN (IF in_sentence THEN <<".">> ELSE <<>>) \o SentencesWithPeriods(s, i + 1, FALSE)
    ELSE <<s[i]>> \o SentencesWithPeriods(s, i + 1, TRUE)

\* what a question holds after the base message
AfterBase(question, base_message) ==
    SubSeq(question, Len(base_message) + 1, Len(question))

\* the sentences of a question: each ends with the "." the code appended
SentenceCount(body) == Cardinality({i \in DOMAIN body : body[i] = "."})
FirstSentence(body) == SubSeq(body, 1, find(body, <<".">>) - 1)

\* C26: split_by_max_length.  Every prompt starts with base_message and
\* the prompts hold the non-empty sentences in order.  A sentence is added
\* to the current prompt only if the question then is at most max_length
\* bytes long and otherwise starts a new prompt, so a question is longer
\* than max_length only when it holds a single sentence.
C26_SplitByMaxLength ==
    (input.op = "split_by_max_length" /\ output.some) =>
       LET prompts == output.val
           base == input.base_message
           body(k) == AfterBase(prompts[k].question, base)
       IN  /\ \A k \in DOMAIN prompts :
                 /\ starts_with(prompts[k].question, base)
                 /\ prompts[k].role_play = None
                 /\ SentenceCount(body(k)) >= 1
                 /\ str_len(prompts[k].question) > input.max_length =>
                       SentenceCount(body(k)) = 1
                 /\ k > 1 =>
                       str_len(prompts[k - 1].question)
                          + str_len(FirstSentence(body(k))) + 1 > input.max_length
           /\ Concat([k \in DOMAIN prompts |-> body(k)]) =
                 SentencesWithPeriods(input.message, 1, FALSE)

\* C26 witness: "a.a.a" after "T:" with max_length 6 gave "T:a.a.", which
\* is exactly 6 long, and "T:a."
C26_Witness ==
    /\ input.op = "split_by_max_length"
    /\ input.max_length = 6
    /\ output = Some(<<Ask(<<"T", ":", "a", ".", "a", ".">>),
                       Ask(<<"T", ":", "a", ".">>)>>)

\* the role each add_ call files its message under
RoleOf(fn) ==
    CASE fn = "add_role_play_message" -> "RolePlay"
      [] fn = "add_user_message" -> "User"
      [] fn = "add_ai_message" -> "AI"

\* one message per call, in call order
MessagesOfCalls(calls) ==
    [k \in DOMAIN calls |-> [role |-> RoleOf(calls[k].fn), content |-> calls[k].content]]

\* C27: Conversation.  After any sequence of add_role_play_message,
\* add_user_message and add_ai_message calls the conversation holds, and
\* messages() returns, exactly one message per call, in call order, with
\* the role of the call and the content given.
C27_ConversationKeepsCalls ==
    (input.op = "conversation" /\ output.some) =>
       /\ output.val.messages = MessagesOfCalls(input.calls)
       /\ output.val.returned.some =>
             output.val.returned.val = MessagesOfCalls(input.calls)

\* C27 witness: the three calls of the repository's test, and messages()
C27_Witness ==
    /\ input.op = "conversation"
    /\ output.some
    /\ output.val.returned =
          Some(<<Message("RolePlay", Hi), Message("User", Yo), Message("AI", Hi)>>)

\* s ends with p
ends_with(s, p) == Len(p) <= Len(s) /\ SubSeq(s, Len(s) - Len(p) + 1, Len(s)) = p

\* C28: in every state of the reader the buffered tail, if there is one,
\* does not end with a record delimiter, "\n\n" or "\r\n\r\n".
C28_TailNeverEndsWithDelimiter ==
    reader.interrupted_data.some =>
       /\ ~ends_with(reader.interrupted_data.val, DelimLF)
       /\ ~ends_with(reader.interrupted_data.val, DelimCRLF)

\* C28: what the code keeps of it: the tail of a text whose records are all
\* delimited, with no line end beyond the delimiters, does not end with a
\* record delimiter
C28_TailOfDelimitedRecords ==
    (reader.interrupted_data.some /\ stream \notin BlankLineStreams) =>
       /\ ~ends_with(reader.interrupted_data.val, DelimLF)
       /\ ~ends_with(reader.interrupted_data.val, DelimCRLF)

\* the content of the last choice's delta of an OpenAI payload, None when
\* the payload has no choice or its last choice has no content
LastChoiceContent(doc) ==
    LET choices == OpenAIDocs[doc].choices
    IN  IF choices = <<>> THEN None ELSE choices[Len(choices)].delta.content

\* the frame is a data frame with one of OpenAI's payloads
IsOpenAIPayload(frame) ==
    /\ frame.kind = "Data"
    /\ Len(frame.text) = 1
    /\ frame.text[1] \in DOMAIN OpenAIDocs

\* C29: the OpenAI adapter takes the delta content of the last choice.  A
\* payload with no choice, or whose content is absent or null, is the empty
\* delta and not an error: the sink gets "" and the stream goes on.
C29_OpenAILastChoice ==
    vendor = "openai" =>
       /\ \A i \in DOMAIN delivered :
             IsOpenAIPayload(delivered[i].frame) =>
                LET content == LastChoiceContent(delivered[i].frame.text[1])
                IN  delivered[i].text = IF content.some THEN content.val ELSE <<>>
       /\ \A i \in DOMAIN adapted :
             IsOpenAIPayload(adapted[i]) =>
                \E j \in DOMAIN delivered : delivered[j].frame = adapted[i]
       /\ (pc = "err" /\ adapted # <<>> /\ IsOpenAIPayload(adapted[Len(adapted)])) =>
             /\ delivered # <<>>
             /\ delivered[Len(delivered)].frame = adapted[Len(adapted)]
             /\ ~delivered[Len(delivered)].ok

\* C29 witness: a payload of two choices, Hi and then Yo, reached the sink
\* as Yo, and a payload without choices as "", after which the request
\* returned Ok
C29_Witness ==
    /\ vendor = "openai"
    /\ pc = "ok"
    /\ \E i \in DOMAIN delivered :
          delivered[i].frame = Data(<<"{openai:Hi,Yo}">>) /\ delivered[i].text = Yo

\* C29 witness: the payload without choices
C29_WitnessEmpty ==
    /\ vendor = "openai"
    /\ pc = "ok"
    /\ \E i \in DOMAIN delivered :
          delivered[i].frame = Data(<<"{openai:[]}">>) /\ delivered[i].text = <<>>

\* the text of the first part of the first candidate of a Gemini payload,
\* None when the payload has no candidate or its first candidate no part
FirstPartText(doc) ==
    LET candidates == GeminiDocs[doc].candidates
    IN  IF candidates = <<>> THEN None
        ELSE IF candidates[1].content.parts = <<>> THEN None
        ELSE Some(candidates[1].content.parts[1].text)

\* the frame is a data frame with one of Gemini's payloads
IsGeminiPayload(frame) ==
    /\ frame.kind = "Data"
    /\ Len(frame.text) = 1
    /\ frame.text[1] \in DOMAIN GeminiDocs

\* C30: the Gemini adapter takes the text of the first part of the first
\* candidate.  A payload with no candidate, or whose first candidate has no
\* part, is the empty delta and not an error.
C30_GeminiFirstPart ==
    vendor = "gemini" =>
       /\ \A i \in DOMAIN delivered :
             IsGeminiPayload(delivered[i].frame) =>
                LET part == FirstPartText(delivered[i].frame.text[1])
                IN  delivered[i].text = IF part.some THEN part.val ELSE <<>>
       /\ \A i \in DOMAIN adapted :
             IsGeminiPayload(adapted[i]) =>
                \E j \in DOMAIN delivered : delivered[j].frame = adapted[i]
       /\ (pc = "err" /\ adapted # <<>> /\ IsGeminiPayload(adapted[Len(adapted)])) =>
             /\ delivered # <<>>
             /\ delivered[Len(delivered)].frame = adapted[Len(adapted)]
             /\ ~delivered[Len(delivered)].ok

\* C30 witness: a payload whose first candidate has the parts Hi and Yo
\* reached the sink as Hi
C30_Witness ==
    /\ vendor = "gemini"
    /\ pc = "ok"
    /\ \E i \in DOMAIN delivered :
          delivered[i].frame = Data(<<"{gemini:Hi,Yo}">>) /\ delivered[i].text = Hi

\* C30 witness: the payloads without candidates and without parts
C30_WitnessEmpty ==
    /\ vendor = "gemini"
    /\ pc = "ok"
    /\ \E i \in DOMAIN delivered :
          /\ delivered[i].frame \in {Data(<<"{gemini:[]}">>), Data(<<"{gemini:parts[]}">>)}
          /\ delivered[i].text = <<>>

\* ------------------------------------------------------------------------
\* C31..C40
\* ------------------------------------------------------------------------

\* the engines whose adapters have no end sentinel
NoSentinelVendors == {"claude", "gemini"}

\* C31: the Claude and Gemini adapters never yield a termination.  Whatever
\* the frames hold, a request of these engines returns Ok(()) only from
\* stream.next() yielding None: every byte of the body was read and no frame
\* is left to handle.
C31_SuccessOnlyAtTransportClose ==
    /\ [](vendor \in NoSentinelVendors /\ pc = "ok" =>
             pos = Len(stream) /\ responses = <<>>)
    /\ [][(vendor \in NoSentinelVendors /\ pc # "ok" /\ pc' = "ok") =>
             (pc = "next" /\ pos = Len(stream) /\ UNCHANGED <<delivered, adapted>>)]_vars

\* C31 witness: a Claude request delivered two deltas and returned Ok at the
\* end of the body
C31_Witness ==
    /\ vendor = "claude"
    /\ pc = "ok"
    /\ Len(delivered) = 2
    /\ pos = Len(stream)

\* C32: backpressure.  stream.next() is polled only when every frame of the
\* chunks read before has been given to the adapter, and to the sink where
\* the adapter has a delta for it: no frame is pending when a chunk is read,
\* and a step is either a read or a call of the sink, never both.
C32_Backpressure ==
    /\ [](pc = "next" => responses = <<>>)
    /\ [][pos' # pos =>
             /\ responses = <<>>
             /\ Len(adapted) = Len(emitted)
             /\ UNCHANGED <<delivered, adapted, member_calls>>]_vars
    /\ [][delivered' # delivered => pos' = pos /\ pc = "for"]_vars

\* C32 witness: a frame was returned and delivered, and only then a further
\* chunk was read, which left a tail
C32_Witness ==
    /\ Len(delivered) = 1
    /\ Len(emitted) = 1
    /\ pc = "next"
    /\ reader.interrupted_data.some

\* C33: every delta handed to a sink is a non-empty text fragment: the sink
\* is never called with the empty string.
C33_SinkNeverGetsEmpty ==
    \A i \in DOMAIN delivered : delivered[i].text # <<>>

\* ------------------------------------------------------------------------
\* One long request: a body of many records, each of which arrives whole or
\* in two chunks
\* ------------------------------------------------------------------------

ReaderRecords == 10

\* one record of the long body, with its delimiter
LongRecord == RecData(<<DocHi("claude")>>) \o DelimLF

\* n records, one after the other
RECURSIVE Repeat(_, _)
Repeat(s, n) == IF n = 0 THEN <<>> ELSE s \o Repeat(s, n - 1)

InitReader ==
    /\ vendor = "claude"
    /\ path = "request_mut"
    /\ sink = "handler"
    /\ stream = Repeat(LongRecord, ReaderRecords)
    /\ pos = 0
    /\ reader = SseStreamReader_new
    /\ responses = <<>>
    /\ pc = "next"
    /\ delivered = <<>>
    /\ member_calls = <<>>
    /\ adapted = <<>>
    /\ emitted = <<>>
    /\ tail_pos = <<>>
    /\ tasks = <<>>
    /\ recorders = <<>>
    /\ input = <<>>
    /\ output = <<>>

\* how much of the record under way has been read
InRecord == pos % Len(LongRecord)

\* the transport cuts the body at the end of every record and at most once
\* inside it: a chunk starts a record, or ends the one under way
TwoChunkRead(n) ==
    /\ n <= Len(LongRecord) - InRecord
    /\ InRecord # 0 => n = Len(LongRecord) - InRecord
    /\ NextChunk(n)

NextReader ==
    \/ \E n \in 1..Len(LongRecord) : TwoChunkRead(n)
    \/ StreamEnd
    \/ ForHandleMutStream

SpecReader == InitReader /\ [][NextReader]_vars

\* C34: the guard of maybe_parse bounds the chunks one record may span, not
\* the length of the stream: a body whose records each span at most two
\* chunks is never aborted by the assert on call_time.
C34_GuardBoundsRecordSpan == pc # "panic"

\* what the code keeps of C34: the counter is the number of records that
\* arrived in two chunks so far, and the assert fails on the tenth of them
C34_CounterCountsSplitRecords ==
    /\ reader.call_time <= CallTimeLimit
    /\ pc = "panic" <=> reader.call_time = CallTimeLimit
    /\ reader.call_time < CallTimeLimit => Len(emitted) <= pos \div Len(LongRecord)

\* C35: no received text is lost by reassembly.  Whenever maybe_parse
\* returns no frames and buffers a tail, the tail is the entire text it was
\* parsing: the tail buffered before, followed by the chunk.
C35_TailIsWholeText ==
    [][(ChunkRead /\ pc' # "panic" /\ reader'.interrupted_data.some) =>
          reader'.interrupted_data.val = StepText]_vars

\* what the code keeps of C35: the tail is the entire text when every
\* complete record of the text is empty or classified
C35_TailIsWholeTextOfKnownRecords ==
    [][(ChunkRead /\ pc' # "panic" /\ reader'.interrupted_data.some) =>
          \E lines \in {split(StepText, delimiter(StepText))} :
             (\A i \in 1..(Len(lines) - 1) :
                 lines[i] = <<>> \/ extract_str(lines[i]).some)
             => reader'.interrupted_data.val = StepText]_vars

\* what the sink is called with for the frame on each path: the text, or
\* None when the path does not call the sink for it
SinkCallOnRequest(v, frame) ==
    IF request_f(v, frame).act = "handle" THEN Some(request_f(v, frame).text) ELSE None
SinkCallOnRequestMut(v, frame) ==
    IF request_mut_f(v, frame).act = "convert" THEN Some(request_mut_f(v, frame).text) ELSE None

\* the closure of the path returns an Err for the frame
ErrOnRequest(v, frame) == request_f(v, frame).act = "err"
ErrOnRequestMut(v, frame) == request_mut_f(v, frame).act = "err"

\* C36: for the same engine and the same chunks the request path and the
\* request_mut path call their sink with the same fragments and end with the
\* same outcome: for every frame the loop hands to the adapter both paths
\* make the same call of the sink, or none, or both fail, and a failure of
\* the transport ends both the same way.
C36_PathsAgree ==
    /\ [][adapted' # adapted =>
             LET frame == adapted'[Len(adapted')]
             IN  /\ SinkCallOnRequest(vendor, frame) = SinkCallOnRequestMut(vendor, frame)
                 /\ ErrOnRequest(vendor, frame) = ErrOnRequestMut(vendor, frame)]_vars
    /\ [](pc # "panic_unwrap")

\* what the code keeps of C36: a frame for which the request path calls the
\* sink gets the same call on the request_mut path, and the closures fail on
\* the same frames
C36_PathsAgreeOnDeltas ==
    [][adapted' # adapted =>
          LET frame == adapted'[Len(adapted')]
          IN  /\ SinkCallOnRequest(vendor, frame).some =>
                    SinkCallOnRequestMut(vendor, frame) = SinkCallOnRequest(vendor, frame)
              /\ ErrOnRequest(vendor, frame) = ErrOnRequestMut(vendor, frame)]_vars

\* the transport is at its end with a tail buffered
ClosesOnTail == pc = "next" /\ pos = Len(stream) /\ reader.interrupted_data.some

\* the step is a failure of the transport
TransportFails == pc' \in {"err_read", "panic_unwrap"}

\* C37: when the transport closes while a tail is buffered the request
\* returns Ok(()), and nothing of the tail is ever delivered, the complete
\* records buffered with a partial one included.
C37_TailDroppedAtClose ==
    /\ [][(ClosesOnTail /\ pc' # pc /\ ~TransportFails) =>
             /\ pc' = "ok"
             /\ UNCHANGED <<delivered, adapted, emitted, reader>>]_vars
    /\ [](pc = "ok" /\ reader.interrupted_data.some =>
             /\ Len(tail_pos) = Len(reader.interrupted_data.val)
             /\ \A i \in DOMAIN delivered : \A k \in DOMAIN tail_pos :
                   delivered[i].at # tail_pos[k])
    /\ [][pc = "ok" => UNCHANGED vars]_vars

\* C37 witness: "data: a\n\ndata: b" arrived in one chunk and the transport
\* closed: the request returned Ok and the complete record "data: a" was
\* never returned or delivered
C37_Witness ==
    /\ pc = "ok"
    /\ reader.interrupted_data = Some(RecData(<<"a">>) \o DelimLF \o RecData(<<"b">>))
    /\ emitted = <<>>
    /\ delivered = <<>>

\* C38: the Container delivers every fragment to every member on either
\* capability: a call of its handle, like one of its handle_mut, calls each
\* member in the declared order with the fragment.
C38_ContainerHandleCallsMembers ==
    sink = "container" =>
       \A n \in DOMAIN delivered :
          delivered[n].ok =>
             /\ Len(CallsFor(n)) = Len(ContainerMembers)
             /\ \A i \in DOMAIN CallsFor(n) :
                   /\ CallsFor(n)[i].member = ContainerMembers[i]
                   /\ CallsFor(n)[i].text = delivered[n].text

\* what the code keeps of C38: handle_mut calls every member, handle none
C38_OnlyHandleMutCallsMembers ==
    sink = "container" =>
       /\ path = "request" => member_calls = <<>>
       /\ path = "request_mut" =>
             \A n \in DOMAIN delivered :
                delivered[n].ok => Len(CallsFor(n)) = Len(ContainerMembers)

\* ---------------------------------------------------------------------
\* C39
\* ---------------------------------------------------------------------

\* the place of request t among the split requests
RequestIndex(t) == CHOOSE k \in 1..Len(TaskOrder) : TaskOrder[k] = t

\* translate has returned
TranslateReturned == output # <<>>

\* C39: what translate returns is Ok, never Err; it holds exactly one result
\* per request whose pass succeeded, each with what that pass recorded, in
\* the order of the split requests whatever the order in which the passes
\* completed; a request whose pass failed has no result.
C39_TranslateReturnsSuccessesInRequestOrder ==
    TranslateReturned =>
       /\ output.ok
       /\ Len(output.val) = Cardinality({t \in Tasks : tasks[t].pc = "done"})
       /\ \A i \in 1..Len(output.val) :
             /\ output.val[i].from \in Tasks
             /\ tasks[output.val[i].from].pc = "done"
             /\ output.val[i].translated = tasks[output.val[i].from].translated.val
       /\ \A i, j \in 1..Len(output.val) :
             i < j => RequestIndex(output.val[i].from) < RequestIndex(output.val[j].from)

\* translate has returned both results, and the pass of the second request
\* completed before the pass of the first
C39_Witness ==
    /\ TranslateReturned
    /\ Len(output.val) = 2
    /\ tasks["world!"].rank < tasks["hello,"].rank

\* ---------------------------------------------------------------------
\* C40
\* ---------------------------------------------------------------------

\* C40: every call of maybe_parse that returns has returned Some exactly
\* when the reader holds no tail afterwards, and a tail the reader holds is
\* never the empty string.
C40_SomeIffNoTail ==
    /\ [][(ChunkRead /\ pc' # "panic") =>
             (maybe_parse(reader, StepChunk).ret.some
                <=> ~reader'.interrupted_data.some)]_vars
    /\ [](reader.interrupted_data.some => reader.interrupted_data.val # <<>>)

\* a call has returned None and left a tail, after an earlier call returned
\* frames and left none
C40_Witness ==
    /\ reader.interrupted_data.some
    /\ reader.interrupted_data.val # <<>>
    /\ emitted # <<>>
    /\ pc = "next"

====
